---- MODULE Spec2Model ----
(***************************************************************************)
(* Model of the "Smart Favorite Lay" strategy core of chimera-lay:         *)
(* backend/app/services/strategy.py (StrategyService and run_backtest)     *)
(* with the configuration bounds of backend/app/models/schemas.py.         *)
(*                                                                         *)
(* Python floats are modelled as exact rationals [n, d] in lowest terms,   *)
(* so round(x, 2), the liability clamp and every comparison are computed   *)
(* as the code computes them, without binary rounding noise.               *)
(***************************************************************************)
EXTENDS Integers, Sequences, FiniteSets, TLC

VARIABLES
    call,           \* a method called on its own: its arguments
    ret,            \* a method called on its own: what it returned
    seed,           \* the value the random source was seeded with
    rng,            \* state of the process-wide random source (module random)
    inputs,         \* per run: the arguments of run_backtest
    pc,             \* per run: position inside run_backtest
    idx,            \* per run: index of the next race of "for race in races"
    bankroll,       \* per run: local variable bankroll
    bets,           \* per run: local list bets
    daily_results,  \* per run: local dict daily_results
    qlog,           \* per run: what evaluate_race returned for each race reached
    result          \* per run: the returned (bets, performance), once returned

vars == <<call, ret, seed, rng, inputs, pc, idx, bankroll, bets,
          daily_results, qlog, result>>

(***************************************************************************)
(* Bounds of the model.                                                    *)
(***************************************************************************)
MaxRaces == 3

(***************************************************************************)
(* Exact rational arithmetic standing for Python float arithmetic.         *)
(***************************************************************************)
Abs(x) == IF x < 0 THEN -x ELSE x

RECURSIVE GCD(_, _)
GCD(a, b) == IF b = 0 THEN a ELSE GCD(b, a % b)

Rat(n, d) ==
    LET s == IF d < 0 THEN -1 ELSE 1
        g == GCD(Abs(n), Abs(d))
    IN  [n |-> (s * n) \div g, d |-> (s * d) \div g]

Int2Rat(k) == [n |-> k, d |-> 1]
Zero == Int2Rat(0)
One == Int2Rat(1)
Hundred == Int2Rat(100)

RMul(a, b) ==
    LET g1 == GCD(Abs(a.n), b.d)
        g2 == GCD(Abs(b.n), a.d)
    IN  [n |-> (a.n \div g1) * (b.n \div g2), d |-> (a.d \div g2) * (b.d \div g1)]

RAdd(a, b) ==
    LET g == GCD(a.d, b.d)
    IN  Rat(a.n * (b.d \div g) + b.n * (a.d \div g), (a.d \div g) * b.d)

RNeg(a) == [n |-> -a.n, d |-> a.d]
RSub(a, b) == RAdd(a, RNeg(b))

\* a / b for b # 0 (the callers test b first: Python raises ZeroDivisionError)
RDiv(a, b) ==
    RMul(a, IF b.n < 0 THEN [n |-> -b.d, d |-> -b.n] ELSE [n |-> b.d, d |-> b.n])

RECURSIVE FracLt(_, _, _, _)
\* an/ad < bn/bd for ad, bd > 0, by integer parts and then by the
\* reciprocals of the fractional parts (no product is formed)
FracLt(an, ad, bn, bd) ==
    LET qa == an \div ad
        qb == bn \div bd
        ra == an % ad
        rb == bn % bd
    IN  IF qa # qb THEN qa < qb
        ELSE IF rb = 0 THEN FALSE
        ELSE IF ra = 0 THEN TRUE
        ELSE FracLt(bd, rb, ad, ra)

RLt(a, b) == FracLt(a.n, a.d, b.n, b.d)
RLe(a, b) == ~RLt(b, a)
RGt(a, b) == RLt(b, a)
RMax(a, b) == IF RLt(a, b) THEN b ELSE a
RMin(a, b) == IF RLt(b, a) THEN b ELSE a

\* Python's round(x): to the nearest integer, a tie to the even one
RoundInt(x) ==
    LET f == x.n \div x.d
        r == x.n % x.d
    IN  IF 2 * r < x.d THEN f
        ELSE IF 2 * r > x.d THEN f + 1
        ELSE IF f % 2 = 0 THEN f ELSE f + 1

\* Python's round(x, 2)
Round2(x) == Rat(RoundInt(RMul(x, Hundred)), 100)

(***************************************************************************)
(* schemas.py: enumerations and the bounds of the configuration fields.    *)
(***************************************************************************)
RaceType == {"flat", "hurdle", "chase", "national_hunt_flat", "hunters_chase"}

GoingCondition == {"firm", "good_to_firm", "good", "good_to_soft", "soft",
                   "heavy", "standard", "slow"}

\* Optional[float] = None: no rational has denominator 0
None == [n |-> 0, d |-> 0]

\* StrategyRules: the Field bounds the schema enforces on a rules record
StrategyRulesOK(rules) ==
    /\ RLe(Rat(101, 100), rules.min_odds)
    /\ RLe(rules.max_odds, Int2Rat(20))
    /\ rules.min_runners >= 2
    /\ rules.max_runners <= 40
    /\ rules.allowed_race_types \subseteq RaceType
    /\ rules.exclude_handicaps \in BOOLEAN
    /\ RLe(Zero, rules.handicap_stake_multiplier)
    /\ RLe(rules.handicap_stake_multiplier, Int2Rat(2))
    /\ DOMAIN rules.going_adjustments \subseteq GoingCondition
    /\ DOMAIN rules.monthly_adjustments \subseteq Int

\* StakeManagement: the Field bounds the schema enforces
StakeManagementOK(sm) ==
    /\ RLe(Rat(1, 100), sm.base_stake_percent)
    /\ RLe(sm.base_stake_percent, Int2Rat(10))
    /\ RLe(Rat(1, 10), sm.max_liability_percent)
    /\ RLe(sm.max_liability_percent, Int2Rat(20))

\* the default tables of StrategyRules
DefaultGoing ==
    [g \in GoingCondition |->
        CASE g = "firm" -> Rat(8, 10)
          [] g = "good_to_firm" -> Rat(9, 10)
          [] g \in {"soft", "heavy"} -> Rat(12, 10)
          [] OTHER -> One]

DefaultTrack == [t \in {"figure8"} |-> Rat(115, 100)]

DefaultMonthly ==
    [m \in {1, 2, 3, 12} |-> IF m = 12 THEN Rat(85, 100) ELSE Rat(9, 10)]

DefaultRules ==
    [min_odds |-> Int2Rat(2), max_odds |-> Rat(45, 10),
     min_runners |-> 6, max_runners |-> 20,
     allowed_race_types |-> {"flat", "hurdle", "chase", "national_hunt_flat"},
     exclude_handicaps |-> FALSE,
     handicap_stake_multiplier |-> Rat(7, 10),
     going_adjustments |-> DefaultGoing,
     track_adjustments |-> DefaultTrack,
     monthly_adjustments |-> DefaultMonthly,
     exclude_amateur_races |-> TRUE,
     exclude_apprentice_races |-> TRUE]

DefaultStakeManagement ==
    [base_stake_percent |-> Rat(1, 2), max_liability_percent |-> Int2Rat(2),
     daily_loss_limit_percent |-> Int2Rat(5),
     weekly_loss_limit_percent |-> Int2Rat(10),
     use_kelly_criterion |-> TRUE, kelly_fraction |-> Rat(1, 4)]

(***************************************************************************)
(* StrategyService.check_race_qualification                                *)
(***************************************************************************)
NoOddsReason == "No BSP odds available"
FailureReasons ==
    {NoOddsReason, "Odds below minimum", "Odds above maximum",
     "Too few runners", "Too many runners", "Race type not allowed",
     "Handicap races excluded"}

\* one check of the method: the reason appended and the penalty when it fails
Check(failed, reason, penalty) ==
    [failed |-> failed, reason |-> reason, penalty |-> penalty]

\* Checks with the odds band exclusive of its bounds (<= for <, >= for >)
Checks_exclusiveOdds(race, favorite, rules) ==
    << Check(RLe(favorite.bsp_odds, rules.min_odds), "Odds below minimum", 30),
       Check(RLe(rules.max_odds, favorite.bsp_odds), "Odds above maximum", 30),
       Check(race.number_of_runners < rules.min_runners, "Too few runners", 25),
       Check(race.number_of_runners > rules.max_runners, "Too many runners", 15),
       Check(race.race_type \notin rules.allowed_race_types,
             "Race type not allowed", 40),
       Check(race.is_handicap /\ rules.exclude_handicaps,
             "Handicap races excluded", 35) >>

\* Checks without the lower bound of the odds band
Checks_noMinimum(race, favorite, rules) ==
    << Check(FALSE, "Odds below minimum", 30),
       Check(RGt(favorite.bsp_odds, rules.max_odds), "Odds above maximum", 30),
       Check(race.number_of_runners < rules.min_runners, "Too few runners", 25),
       Check(race.number_of_runners > rules.max_runners, "Too many runners", 15),
       Check(race.race_type \notin rules.allowed_race_types,
             "Race type not allowed", 40),
       Check(race.is_handicap /\ rules.exclude_handicaps,
             "Handicap races excluded", 35) >>

\* the six checks that run when the favorite has odds, in source order
Checks(race, favorite, rules) ==
    << Check(RLt(favorite.bsp_odds, rules.min_odds), "Odds below minimum", 30),
       Check(RGt(favorite.bsp_odds, rules.max_odds), "Odds above maximum", 30),
       Check(race.number_of_runners < rules.min_runners, "Too few runners", 25),
       Check(race.number_of_runners > rules.max_runners, "Too many runners", 15),
       Check(race.race_type \notin rules.allowed_race_types,
             "Race type not allowed", 40),
       Check(race.is_handicap /\ rules.exclude_handicaps,
             "Handicap races excluded", 35) >>

RECURSIVE RunChecks_silentPenalty(_, _, _)
\* RunChecks with the "Too many runners" penalty taken without its reason
RunChecks_silentPenalty(cs, k, acc) ==
    IF k > Len(cs) THEN acc
    ELSE RunChecks_silentPenalty(cs, k + 1,
            IF cs[k].failed
            THEN [reasons |-> IF cs[k].reason = "Too many runners"
                              THEN acc.reasons
                              ELSE Append(acc.reasons, cs[k].reason),
                  score |-> acc.score - cs[k].penalty]
            ELSE acc)

RECURSIVE RunChecks(_, _, _)
\* acc = [reasons, score] after the checks before position k
RunChecks(cs, k, acc) ==
    IF k > Len(cs) THEN acc
    ELSE RunChecks(cs, k + 1,
            IF cs[k].failed
            THEN [reasons |-> Append(acc.reasons, cs[k].reason),
                  score |-> acc.score - cs[k].penalty]
            ELSE acc)

\* max(0, score) without the clamp
IntMax_noClamp(a, b) == b

IntMax(a, b) == IF a > b THEN a ELSE b

PositiveNotes(race) ==
    (IF race.going = "soft" THEN <<"Soft going (+20% stake)">>
     ELSE IF race.going = "heavy" THEN <<"Heavy going (+20% stake)">>
     ELSE <<>>)
    \o (IF race.track_direction = "figure8"
        THEN <<"Figure-8 track (+15% stake)">> ELSE <<>>)

\* check_race_qualification without the early return on missing odds: the
\* reason is recorded and the remaining checks still run
check_race_qualification_noEarlyReturn(race, favorite, rules) ==
    LET priced == favorite.bsp_odds # None
        seen == IF priced THEN favorite
                ELSE [favorite EXCEPT !.bsp_odds = rules.min_odds]
        start == IF priced THEN [reasons |-> <<>>, score |-> 100]
                 ELSE [reasons |-> <<NoOddsReason>>, score |-> 0]
        acc == RunChecks(Checks(race, seen, rules), 1, start)
        qualifies == Len(acc.reasons) = 0
    IN  [qualifies |-> qualifies,
         reasons |-> IF qualifies
                     THEN <<"All criteria met">> \o PositiveNotes(race)
                     ELSE acc.reasons,
         score |-> IntMax(0, acc.score)]

check_race_qualification(race, favorite, rules) ==
    IF favorite.bsp_odds = None
    THEN [qualifies |-> FALSE, reasons |-> <<NoOddsReason>>, score |-> 0]
    ELSE LET acc == RunChecks(Checks(race, favorite, rules), 1,
                              [reasons |-> <<>>, score |-> 100])
             qualifies == Len(acc.reasons) = 0
         IN  [qualifies |-> qualifies,
              reasons |-> IF qualifies
                          THEN <<"All criteria met">> \o PositiveNotes(race)
                          ELSE acc.reasons,
              score |-> IntMax(0, acc.score)]

(***************************************************************************)
(* StrategyService.calculate_stake_multiplier                              *)
(***************************************************************************)
\* race_date is "YYYY-MM-DD", modelled as the integer YYYYMMDD: the order of
\* the strings is the order of the integers
MonthOf(race_date) == (race_date \div 100) % 100

\* dict.get(key, 1.0), and "if key in table: multiplier *= table[key]"
Lookup(table, key) == IF key \in DOMAIN table THEN table[key] ELSE One

\* the handicap multiplier applied to every handicap, excluded or not
HandicapFactor_ignoresExclusion(race, rules) ==
    IF race.is_handicap THEN rules.handicap_stake_multiplier ELSE One

HandicapFactor(race, rules) ==
    IF race.is_handicap /\ ~rules.exclude_handicaps
    THEN rules.handicap_stake_multiplier ELSE One

calculate_stake_multiplier(race, rules) ==
    LET m0 == One
        m1 == RMul(m0, Lookup(rules.going_adjustments, race.going))
        m2 == RMul(m1, Lookup(rules.track_adjustments, race.track_direction))
        m3 == RMul(m2, Lookup(rules.monthly_adjustments, MonthOf(race.race_date)))
    IN  RMul(m3, HandicapFactor(race, rules))

(***************************************************************************)
(* StrategyService.calculate_stake                                         *)
(***************************************************************************)
Raised(kind) == [kind |-> kind]
ZeroDivisionError == Raised("ZeroDivisionError")

\* the clamp never taken
OverLimit_never(liability, max_liability) == FALSE

\* the guard of the clamp, "if liability > max_liability"
OverLimit(liability, max_liability) == RGt(liability, max_liability)

\* fractional Kelly sizing applied when the configuration asks for it
base_stake_kelly(bank, multiplier, sm) ==
    LET flat == RMul(RMul(bank, RDiv(sm.base_stake_percent, Hundred)),
                     multiplier)
    IN  IF sm.use_kelly_criterion THEN RMul(flat, sm.kelly_fraction) ELSE flat

\* base_stake = bankroll * (base_stake_percent / 100) * multiplier
base_stake(bank, multiplier, sm) ==
    RMul(RMul(bank, RDiv(sm.base_stake_percent, Hundred)), multiplier)

\* the percentage taken as a fraction: the "/ 100" left out
max_liability_fraction(bank, sm) == RMul(bank, sm.max_liability_percent)

\* max_liability = bankroll * (max_liability_percent / 100)
max_liability(bank, sm) == RMul(bank, RDiv(sm.max_liability_percent, Hundred))

\* the body up to the return: the locals base_stake and liability as the
\* return statement reads them
size_stake(bank, odds, multiplier, sm) ==
    LET liability == RMul(base_stake(bank, multiplier, sm), RSub(odds, One))
    IN  IF OverLimit(liability, max_liability(bank, sm))
        THEN IF RSub(odds, One).n = 0
             THEN ZeroDivisionError
             ELSE [kind |-> "ok",
                   stake |-> RDiv(max_liability(bank, sm), RSub(odds, One)),
                   liability |-> max_liability(bank, sm)]
        ELSE [kind |-> "ok", stake |-> base_stake(bank, multiplier, sm),
              liability |-> liability]

\* return round(base_stake, 2), round(liability, 2)
calculate_stake(bank, odds, multiplier, sm) ==
    LET sized == size_stake(bank, odds, multiplier, sm)
    IN  IF sized.kind # "ok" THEN sized
        ELSE [kind |-> "ok", stake |-> Round2(sized.stake),
              liability |-> Round2(sized.liability)]

(***************************************************************************)
(* StrategyService.evaluate_race                                           *)
(***************************************************************************)
evaluate_race(race, favorite, bank, rules, sm) ==
    LET q == check_race_qualification(race, favorite, rules)
        multiplier == calculate_stake_multiplier(race, rules)
        sized == calculate_stake(bank, favorite.bsp_odds, multiplier, sm)
    IN  IF ~q.qualifies THEN [kind |-> "None"]
        ELSE IF sized.kind # "ok" THEN sized
        ELSE [kind |-> "QualifyingRace",
              race |-> race,
              favorite |-> favorite,
              qualification_score |-> q.score,
              adjusted_stake_multiplier |-> multiplier,
              suggested_stake |-> sized.stake,
              suggested_liability |-> sized.liability,
              reasons |-> q.reasons]

(***************************************************************************)
(* StrategyService.simulate_bet_result and the random source it reads.     *)
(* random.random() is modelled by a small linear congruential generator:   *)
(* a call advances the process-wide state and returns state / 16.          *)
(***************************************************************************)
Seeds == {1, 12}

NextRandom(s) == (5 * s + 3) % 16

RandomValue(s) == Rat(s, 16)

lay_win_prob(odds) ==
    LET odds_adjustment == RMul(RSub(odds, Int2Rat(2)), Rat(2, 100))
    IN  RMin(Rat(75, 100), RMax(Rat(55, 100), RAdd(Rat(67, 100), odds_adjustment)))

\* the outcome for the value random.random() returned
simulate_bet_result(odds, draw) ==
    IF RLt(draw, lay_win_prob(odds)) THEN "won" ELSE "lost"

(***************************************************************************)
(* StrategyService.calculate_profit_loss                                   *)
(***************************************************************************)
\* a lost lay bet charged its stake instead of its liability
calculate_profit_loss_lossIsStake(stake, liability, res) ==
    IF res = "won" THEN stake
    ELSE IF res = "lost" THEN RNeg(stake)
    ELSE Zero

calculate_profit_loss(stake, liability, res) ==
    IF res = "won" THEN stake
    ELSE IF res = "lost" THEN RNeg(liability)
    ELSE Zero

(***************************************************************************)
(* calculate_max_drawdown                                                  *)
(***************************************************************************)
RECURSIVE DrawdownLoop_fixedPeak(_, _, _, _)
\* the loop without "if value > peak: peak = value": every drawdown is
\* measured from the first value of the curve
DrawdownLoop_fixedPeak(curve, k, peak, max_dd) ==
    IF k > Len(curve) THEN [kind |-> "ok", value |-> Round2(max_dd)]
    ELSE IF peak.n = 0 THEN ZeroDivisionError
    ELSE LET dd == RMul(RDiv(RSub(peak, curve[k]), peak), Hundred)
         IN  DrawdownLoop_fixedPeak(curve, k + 1, peak,
                                    IF RGt(dd, max_dd) THEN dd ELSE max_dd)

RECURSIVE DrawdownLoop(_, _, _, _)
\* the for loop from position k with the locals peak and max_dd
DrawdownLoop(curve, k, peak, max_dd) ==
    IF k > Len(curve) THEN [kind |-> "ok", value |-> Round2(max_dd)]
    ELSE LET value == curve[k]
             newPeak == IF RGt(value, peak) THEN value ELSE peak
         IN  IF newPeak.n = 0 THEN ZeroDivisionError
             ELSE LET dd == RMul(RDiv(RSub(newPeak, value), newPeak), Hundred)
                  IN  DrawdownLoop(curve, k + 1, newPeak,
                                   IF RGt(dd, max_dd) THEN dd ELSE max_dd)

calculate_max_drawdown(equity_curve) ==
    IF Len(equity_curve) < 2 THEN [kind |-> "ok", value |-> Zero]
    ELSE DrawdownLoop(equity_curve, 1, equity_curve[1], Zero)

(***************************************************************************)
(* calculate_sharpe_ratio.  The result is 0 on the guarded branches; on    *)
(* the last branch it is round(mean / std * sqrt(7 * 300), 2), an          *)
(* irrational function of the per-bet returns, kept here as those returns. *)
(***************************************************************************)
RECURSIVE RSum(_)
RSum(xs) == IF Len(xs) = 0 THEN Zero ELSE RAdd(xs[1], RSum(Tail(xs)))

calculate_sharpe_ratio(bs) ==
    IF Len(bs) < 2 THEN [zero |-> TRUE]
    ELSE LET staked == SelectSeq(bs, LAMBDA b : RGt(b.stake, Zero))
             returns == [k \in DOMAIN staked |->
                            RDiv(staked[k].profit_loss, staked[k].stake)]
             \* np.std(returns) == 0: every return equals the mean
             std_is_zero == \A j, k \in DOMAIN returns : returns[j] = returns[k]
         IN  IF Len(returns) < 2 THEN [zero |-> TRUE]
             ELSE IF std_is_zero THEN [zero |-> TRUE]
             ELSE [zero |-> FALSE, returns |-> returns]

(***************************************************************************)
(* run_backtest: the helpers of its body.                                  *)
(***************************************************************************)
\* "Group runners by race": race_id -> the runners of the race, input order
race_runners(runners) ==
    [id \in {runners[k].race_id : k \in DOMAIN runners} |->
        SelectSeq(runners, LAMBDA x : x.race_id = id)]

\* favorites = [r for r in race_runners_list if r.is_favorite]
favorites(runners, race) ==
    SelectSeq(race_runners(runners)[race.id], LAMBDA x : x.is_favorite)

\* the last flagged runner taken as the favorite
PickFavorite_last(favs) == favs[Len(favs)]

\* favorite = favorites[0]
PickFavorite(favs) == favs[1]

\* a Bet that records the stake as its profit_loss, won or lost
Bet_profitIsStake(k, race, favorite, q, res, profit_loss) ==
    [id |-> <<"bt", k>>,
     race_id |-> race.id,
     runner_id |-> favorite.id,
     strategy_id |-> "backtest",
     bet_type |-> "lay",
     odds |-> favorite.bsp_odds,
     stake |-> q.suggested_stake,
     liability |-> q.suggested_liability,
     status |-> "settled",
     result |-> res,
     profit_loss |-> q.suggested_stake,
     placed_at |-> race.race_date]

Bet(k, race, favorite, q, res, profit_loss) ==
    [id |-> <<"bt", k>>,
     race_id |-> race.id,
     runner_id |-> favorite.id,
     strategy_id |-> "backtest",
     bet_type |-> "lay",
     odds |-> favorite.bsp_odds,
     stake |-> q.suggested_stake,
     liability |-> q.suggested_liability,
     status |-> "settled",
     result |-> res,
     profit_loss |-> profit_loss,
     placed_at |-> race.race_date]

\* daily_results is a dict: a list of (date, totals) in insertion order
HasDate(dr, date) == \E k \in DOMAIN dr : dr[k].date = date

NewDay(date) ==
    [date |-> date, bets |-> 0, won |-> 0, lost |-> 0,
     turnover |-> Zero, liability |-> Zero, profit_loss |-> Zero]

\* the totals of a day assigned ("=") instead of accumulated ("+="): a day
\* keeps its last bet only
TrackDaily_lastBetOnly(dr, date, q, res, profit_loss) ==
    LET dr1 == IF HasDate(dr, date) THEN dr ELSE Append(dr, NewDay(date))
    IN  [k \in DOMAIN dr1 |->
            IF dr1[k].date # date THEN dr1[k]
            ELSE [date |-> date,
                  bets |-> 1,
                  won |-> IF res = "won" THEN 1 ELSE 0,
                  lost |-> IF res = "won" THEN 0 ELSE 1,
                  turnover |-> q.suggested_stake,
                  liability |-> q.suggested_liability,
                  profit_loss |-> profit_loss]]

TrackDaily(dr, date, q, res, profit_loss) ==
    LET dr1 == IF HasDate(dr, date) THEN dr ELSE Append(dr, NewDay(date))
    IN  [k \in DOMAIN dr1 |->
            IF dr1[k].date # date THEN dr1[k]
            ELSE [date |-> date,
                  bets |-> dr1[k].bets + 1,
                  won |-> dr1[k].won + (IF res = "won" THEN 1 ELSE 0),
                  lost |-> dr1[k].lost + (IF res = "won" THEN 0 ELSE 1),
                  turnover |-> RAdd(dr1[k].turnover, q.suggested_stake),
                  liability |-> RAdd(dr1[k].liability, q.suggested_liability),
                  profit_loss |-> RAdd(dr1[k].profit_loss, profit_loss)]]

RECURSIVE InsertSorted(_, _)
InsertSorted(x, xs) ==
    IF Len(xs) = 0 THEN <<x>>
    ELSE IF x <= xs[1] THEN <<x>> \o xs
    ELSE <<xs[1]>> \o InsertSorted(x, Tail(xs))

RECURSIVE SortAsc(_)
SortAsc(xs) == IF Len(xs) = 0 THEN <<>> ELSE InsertSorted(xs[1], SortAsc(Tail(xs)))

\* the keys in insertion order, not sorted
sorted_dates_insertionOrder(dr) == [k \in DOMAIN dr |-> dr[k].date]

\* sorted_dates = sorted(daily_results.keys())
sorted_dates(dr) == SortAsc([k \in DOMAIN dr |-> dr[k].date])

DayOf(dr, date) == dr[CHOOSE k \in DOMAIN dr : dr[k].date = date]

RECURSIVE DailyLoop(_, _, _, _)
\* "for date in sorted_dates" from position k with running_bank
DailyLoop(dr, dates, k, running_bank) ==
    IF k > Len(dates) THEN <<>>
    ELSE LET day == DayOf(dr, dates[k])
             ending == RAdd(running_bank, day.profit_loss)
         IN  << [date |-> dates[k],
                 total_bets |-> day.bets,
                 won_bets |-> day.won,
                 lost_bets |-> day.lost,
                 turnover |-> day.turnover,
                 liability |-> day.liability,
                 profit_loss |-> day.profit_loss,
                 roi |-> IF RGt(day.turnover, Zero)
                         THEN RMul(RDiv(day.profit_loss, day.turnover), Hundred)
                         ELSE Zero,
                 starting_bank |-> running_bank,
                 ending_bank |-> ending] >>
             \o DailyLoop(dr, dates, k + 1, ending)

daily_performance(dr, initial_bankroll) ==
    DailyLoop(dr, sorted_dates(dr), 1, initial_bankroll)

RECURSIVE EquityLoop(_, _, _)
EquityLoop(bs, k, running_total) ==
    IF k > Len(bs) THEN <<>>
    ELSE LET t == RAdd(running_total, bs[k].profit_loss)
         IN  <<t>> \o EquityLoop(bs, k + 1, t)

equity_curve(bs, initial_bankroll) ==
    <<initial_bankroll>> \o EquityLoop(bs, 1, initial_bankroll)

\* won_bets / total_bets * 100 without the "if total_bets > 0" guard
win_rate_unguarded(won_bets, total_bets) ==
    IF total_bets = 0 THEN ZeroDivisionError
    ELSE RMul(Rat(won_bets, total_bets), Hundred)

\* win_rate=(won_bets / total_bets * 100) if total_bets > 0 else 0
win_rate(won_bets, total_bets) ==
    IF total_bets > 0 THEN RMul(Rat(won_bets, total_bets), Hundred) ELSE Zero

Stakes(bs) == [k \in DOMAIN bs |-> bs[k].stake]
Liabilities(bs) == [k \in DOMAIN bs |-> bs[k].liability]

\* "Calculate performance metrics" to the return statement
Performance(bs, bank, dr, initial_bankroll) ==
    LET total_bets == Len(bs)
        won_bets == Len(SelectSeq(bs, LAMBDA b : b.result = "won"))
        lost_bets == total_bets - won_bets
        total_turnover == RSum(Stakes(bs))
        total_liability == RSum(Liabilities(bs))
        total_pl == RSub(bank, initial_bankroll)
        max_drawdown == calculate_max_drawdown(equity_curve(bs, initial_bankroll))
    IN  IF max_drawdown.kind # "ok" THEN max_drawdown
        ELSE [kind |-> "ok",
              bets |-> bs,
              performance |->
                [strategy_id |-> "backtest",
                 total_bets |-> total_bets,
                 won_bets |-> won_bets,
                 lost_bets |-> lost_bets,
                 win_rate |-> win_rate(won_bets, total_bets),
                 total_turnover |-> total_turnover,
                 total_liability |-> total_liability,
                 total_profit_loss |-> total_pl,
                 roi |-> IF RGt(total_turnover, Zero)
                         THEN RMul(RDiv(total_pl, total_turnover), Hundred)
                         ELSE Zero,
                 max_drawdown |-> max_drawdown.value,
                 sharpe_ratio |-> calculate_sharpe_ratio(bs),
                 daily_performance |-> daily_performance(dr, initial_bankroll)]]

(***************************************************************************)
(* The inputs the model draws from.                                        *)
(***************************************************************************)
Race(id, race_date, race_type, n, going, track_direction, is_handicap) ==
    [id |-> id, race_date |-> race_date, race_type |-> race_type,
     number_of_runners |-> n, going |-> going,
     track_direction |-> track_direction, is_handicap |-> is_handicap]

Runner(id, race_id, bsp_odds, is_favorite) ==
    [id |-> id, race_id |-> race_id, bsp_odds |-> bsp_odds,
     is_favorite |-> is_favorite]

\* a race with the runners that reference it
Card(race, runners) == [race |-> race, runners |-> runners]

Cards ==
    { Card(Race("r1", 20240115, "flat", 8, "good", "left", FALSE),
           << Runner("r1a", "r1", Int2Rat(5), FALSE),
              Runner("r1b", "r1", Int2Rat(3), TRUE) >>),
      Card(Race("r2", 20240115, "hurdle", 10, "soft", "figure8", TRUE),
           << Runner("r2a", "r2", Rat(5, 2), TRUE),
              Runner("r2b", "r2", Int2Rat(6), TRUE) >>),
      Card(Race("r3", 20240620, "chase", 12, "heavy", "right", FALSE),
           << Runner("r3a", "r3", Rat(9, 2), TRUE) >>),
      Card(Race("r4", 20231220, "flat", 7, "firm", "left", TRUE),
           << Runner("r4a", "r4", Int2Rat(2), TRUE) >>),
      Card(Race("r5", 20240620, "hunters_chase", 9, "good", "left", FALSE),
           << Runner("r5a", "r5", Int2Rat(3), TRUE) >>),
      Card(Race("r6", 20240301, "flat", 8, "good", "left", FALSE),
           << Runner("r6a", "r6", None, TRUE),
              Runner("r6b", "r6", Int2Rat(3), TRUE) >>),
      Card(Race("r7", 20240301, "flat", 8, "good", "left", FALSE), << >>),
      Card(Race("r8", 20231220, "flat", 8, "good", "left", FALSE),
           << Runner("r8a", "r8", Int2Rat(3), FALSE) >>) }

\* the sequences of distinct cards of length at most n
CardSeqs(n) ==
    UNION { { cs \in [1..k -> Cards] : \A a, b \in 1..k : a # b => cs[a] # cs[b] }
            : k \in 0..n }

RECURSIVE Concat(_)
Concat(xss) == IF Len(xss) = 0 THEN <<>> ELSE xss[1] \o Concat(Tail(xss))

RulesPool ==
    { DefaultRules,
      [DefaultRules EXCEPT !.exclude_handicaps = TRUE,
                           !.allowed_race_types = {"flat", "hurdle"},
                           !.max_odds = Int2Rat(4)],
      \* a small positive multiplier: the stake of a handicap rounds to 0.00
      [DefaultRules EXCEPT !.handicap_stake_multiplier = Rat(1, 100)] }

StakePool ==
    { DefaultStakeManagement,
      [DefaultStakeManagement EXCEPT !.base_stake_percent = Int2Rat(10),
                                     !.max_liability_percent = Int2Rat(20)] }

BankrollPool == { Int2Rat(100) }

\* the argument tuples of run_backtest
BacktestInputs ==
    { [races |-> [k \in DOMAIN cs |-> cs[k].race],
       runners |-> Concat([k \in DOMAIN cs |-> cs[k].runners]),
       strategy_rules |-> rules,
       stake_management |-> sm,
       initial_bankroll |-> b]
      : cs \in CardSeqs(MaxRaces), rules \in RulesPool, sm \in StakePool,
        b \in BankrollPool }

(***************************************************************************)
(* run_backtest as a state machine: one step per iteration of the loop     *)
(* over races, then the metrics and the return.                            *)
(***************************************************************************)
Runs == {1, 2}

NoCall == [fn |-> "none"]

\* the locals of a run that has not started
Idle(v) == [r \in Runs |-> v]

\* the loop over sorted(races, key=race_date): the idx-th race by date, races
\* of one date in input order
CurrentRace_sortedByDate(r) ==
    LET races == inputs[r].races
        Rank(i) == Cardinality({ j \in DOMAIN races :
                                   \/ races[j].race_date < races[i].race_date
                                   \/ /\ races[j].race_date = races[i].race_date
                                      /\ j <= i })
    IN  races[CHOOSE i \in DOMAIN races : Rank(i) = idx[r]]

\* "for race in races": the race of the iteration
CurrentRace(r) == inputs[r].races[idx[r]]

InLoop(r) == pc[r] = "loop" /\ idx[r] <= Len(inputs[r].races)

HasRunners(r) ==
    CurrentRace(r).id \in DOMAIN race_runners(inputs[r].runners)

CurrentFavorites(r) == favorites(inputs[r].runners, CurrentRace(r))

\* every race sized against the bankroll the run started with
Evaluated_initialBankroll(r) ==
    evaluate_race(CurrentRace(r), PickFavorite(CurrentFavorites(r)),
                  inputs[r].initial_bankroll,
                  inputs[r].strategy_rules, inputs[r].stake_management)

Evaluated(r) ==
    evaluate_race(CurrentRace(r), PickFavorite(CurrentFavorites(r)), bankroll[r],
                  inputs[r].strategy_rules, inputs[r].stake_management)

LogEntry(r, q) == [race |-> idx[r], bankroll |-> bankroll[r], q |-> q]

\* a bet list that outlives the call (a module-level list): the second
\* call starts from the bets of the first
InitialBets_shared(r) == bets[1]

\* "bets = []": the list is local to the call
InitialBets(r) == <<>>

Begin(r) ==
    /\ pc[r] = "called"
    /\ pc' = [pc EXCEPT ![r] = "loop"]
    /\ idx' = [idx EXCEPT ![r] = 1]
    /\ bankroll' = [bankroll EXCEPT ![r] = inputs[r].initial_bankroll]
    /\ bets' = [bets EXCEPT ![r] = InitialBets(r)]
    /\ daily_results' = [daily_results EXCEPT ![r] = <<>>]
    /\ qlog' = [qlog EXCEPT ![r] = <<>>]
    /\ UNCHANGED <<call, ret, seed, rng, inputs, result>>

\* "if race.id not in race_runners: continue"
SkipNoRunners(r) ==
    /\ InLoop(r)
    /\ ~HasRunners(r)
    /\ idx' = [idx EXCEPT ![r] = @ + 1]
    /\ UNCHANGED <<call, ret, seed, rng, inputs, pc, bankroll, bets,
                   daily_results, qlog, result>>

\* "if not favorites: continue"
SkipNoFavorite(r) ==
    /\ InLoop(r)
    /\ HasRunners(r)
    /\ Len(CurrentFavorites(r)) = 0
    /\ idx' = [idx EXCEPT ![r] = @ + 1]
    /\ UNCHANGED <<call, ret, seed, rng, inputs, pc, bankroll, bets,
                   daily_results, qlog, result>>

\* a skip that still calls random.random() for the race
SkipNotQualifying_draws(r) ==
    /\ InLoop(r)
    /\ HasRunners(r)
    /\ Len(CurrentFavorites(r)) > 0
    /\ Evaluated(r).kind = "None"
    /\ idx' = [idx EXCEPT ![r] = @ + 1]
    /\ rng' = NextRandom(rng)
    /\ qlog' = [qlog EXCEPT ![r] = Append(@, LogEntry(r, Evaluated(r)))]
    /\ UNCHANGED <<call, ret, seed, inputs, pc, bankroll, bets,
                   daily_results, result>>

\* "if qualifying_race is None: continue"
SkipNotQualifying(r) ==
    /\ InLoop(r)
    /\ HasRunners(r)
    /\ Len(CurrentFavorites(r)) > 0
    /\ Evaluated(r).kind = "None"
    /\ idx' = [idx EXCEPT ![r] = @ + 1]
    /\ qlog' = [qlog EXCEPT ![r] = Append(@, LogEntry(r, Evaluated(r)))]
    /\ UNCHANGED <<call, ret, seed, rng, inputs, pc, bankroll, bets,
                   daily_results, result>>

\* the rest of the loop body: simulate, settle, record, track the day
PlaceBet(r) ==
    /\ InLoop(r)
    /\ HasRunners(r)
    /\ Len(CurrentFavorites(r)) > 0
    /\ Evaluated(r).kind = "QualifyingRace"
    /\ LET race == CurrentRace(r)
           favorite == PickFavorite(CurrentFavorites(r))
           q == Evaluated(r)
           res == simulate_bet_result(favorite.bsp_odds,
                                      RandomValue(NextRandom(rng)))
           profit_loss == calculate_profit_loss(q.suggested_stake,
                                                q.suggested_liability, res)
       IN  /\ rng' = NextRandom(rng)
           /\ bankroll' = [bankroll EXCEPT ![r] = RAdd(@, profit_loss)]
           /\ bets' = [bets EXCEPT ![r] =
                         Append(@, Bet(Len(@) + 1, race, favorite, q, res,
                                       profit_loss))]
           /\ daily_results' = [daily_results EXCEPT ![r] =
                         TrackDaily(@, race.race_date, q, res, profit_loss)]
           /\ qlog' = [qlog EXCEPT ![r] = Append(@, LogEntry(r, q))]
    /\ idx' = [idx EXCEPT ![r] = @ + 1]
    /\ UNCHANGED <<call, ret, seed, inputs, pc, result>>

\* after the loop: the metrics, the daily list and the return
Finish(r) ==
    /\ pc[r] = "loop"
    /\ idx[r] > Len(inputs[r].races)
    /\ pc' = [pc EXCEPT ![r] = "returned"]
    /\ result' = [result EXCEPT ![r] =
                    Performance(bets[r], bankroll[r], daily_results[r],
                                inputs[r].initial_bankroll)]
    /\ UNCHANGED <<call, ret, seed, rng, inputs, idx, bankroll, bets,
                   daily_results, qlog>>

RunStep(r) ==
    \/ Begin(r)
    \/ SkipNoRunners(r)
    \/ SkipNoFavorite(r)
    \/ SkipNotQualifying(r)
    \/ PlaceBet(r)
    \/ Finish(r)

\* one call of run_backtest with the random source seeded before it
InitBacktest ==
    /\ call = NoCall
    /\ ret = NoCall
    /\ seed \in Seeds
    /\ rng = seed
    /\ \E inp \in BacktestInputs : inputs = Idle(inp)
    /\ pc = [r \in Runs |-> IF r = 1 THEN "called" ELSE "idle"]
    /\ idx = Idle(0)
    /\ bankroll = Idle(Zero)
    /\ bets = Idle(<<>>)
    /\ daily_results = Idle(<<>>)
    /\ qlog = Idle(<<>>)
    /\ result = Idle([kind |-> "none"])

(***************************************************************************)
(* The methods of StrategyService called on their own: the arguments are   *)
(* drawn from bounded sets and one action applies each method.             *)
(***************************************************************************)
QualOdds ==
    { None, One, Rat(101, 100), Rat(9, 5), Int2Rat(2), Int2Rat(3), Rat(9, 2),
      Rat(451, 100) }

QualRaces ==
    { Race("q", 20240115, t, n, g, d, h)
      : t \in {"flat", "hunters_chase"}, n \in {5, 6, 20, 21},
        g \in {"good", "soft"}, d \in {"left", "figure8"}, h \in BOOLEAN }

QualRules ==
    { [DefaultRules EXCEPT !.max_odds = mx, !.max_runners = mr,
                           !.allowed_race_types = ts, !.exclude_handicaps = x]
      : mx \in { Rat(9, 2), Rat(3, 2) }, mr \in {20, 4},
        ts \in { DefaultRules.allowed_race_types, {"hurdle"} }, x \in BOOLEAN }
    \cup { \* the smallest min_odds the schema accepts
           [DefaultRules EXCEPT !.min_odds = Rat(101, 100)] }

QualCalls ==
    { [fn |-> "qualification", race |-> race,
       favorite |-> Runner("qf", "q", odds, TRUE), rules |-> rules,
       stake_management |-> DefaultStakeManagement, bankroll |-> Int2Rat(100)]
      : race \in QualRaces, odds \in QualOdds, rules \in QualRules }

StakeCalls ==
    { [fn |-> "stake", bankroll |-> b, odds |-> o, multiplier |-> m,
       stake_management |->
           [DefaultStakeManagement EXCEPT !.base_stake_percent = bp,
                                          !.max_liability_percent = lp]]
      : b \in { Int2Rat(-50), Zero, Rat(1, 100), Rat(403, 4), Int2Rat(1000) },
        o \in { Rat(1, 2), One, Rat(101, 100), Int2Rat(2), Rat(10, 3),
                Rat(9, 2), Int2Rat(20) },
        m \in { Int2Rat(-1), Zero, Rat(3, 5), One, Rat(7, 5), Int2Rat(2) },
        bp \in { Rat(1, 100), Rat(1, 2), Int2Rat(10) },
        lp \in { Rat(1, 10), Int2Rat(2), Int2Rat(20) } }

MultRaces ==
    { Race("m", d, "flat", 8, g, t, h)
      : d \in {20240115, 20240620, 20241201}, g \in {"good", "soft", "firm"},
        t \in {"left", "figure8"}, h \in BOOLEAN }

\* configurations StrategyRules accepts: the handicap multiplier over its
\* range [0, 2] and tables with arbitrary float entries
MultRules ==
    { [DefaultRules EXCEPT !.handicap_stake_multiplier = hm,
                           !.exclude_handicaps = x,
                           !.going_adjustments = gt,
                           !.monthly_adjustments = mt]
      : hm \in { Zero, Rat(7, 10), Int2Rat(2) }, x \in BOOLEAN,
        gt \in { DefaultGoing, [g \in {"soft"} |-> Rat(-1, 2)],
                 [g \in {"firm"} |-> Zero] },
        mt \in { DefaultMonthly, [m \in {6} |-> Rat(3, 2)] } }

MultCalls ==
    { [fn |-> "multiplier", race |-> race, rules |-> rules]
      : race \in MultRaces, rules \in MultRules }

\* equity curves: every sequence of up to MaxCurveLen of a few values, zero and
\* a negative one included, and the curve of the documentation
MaxCurveLen == 3

CurveValues == { Int2Rat(-2), Zero, Int2Rat(2), Int2Rat(3), Int2Rat(4) }

ExampleCurve ==
    << Int2Rat(100000), Int2Rat(90000), Int2Rat(95000), Int2Rat(80000) >>

Curves ==
    UNION { [1..n -> CurveValues] : n \in 0..MaxCurveLen } \cup { ExampleCurve }

DrawdownCalls == { [fn |-> "drawdown", equity_curve |-> c] : c \in Curves }

Returned(fn, value) == [fn |-> fn, value |-> value]

CallCheckRaceQualification ==
    /\ call.fn = "qualification"
    /\ ret = NoCall
    /\ ret' = Returned("check_race_qualification",
                       check_race_qualification(call.race, call.favorite,
                                                call.rules))
    /\ UNCHANGED <<call, seed, rng, inputs, pc, idx, bankroll, bets,
                   daily_results, qlog, result>>

CallEvaluateRace ==
    /\ call.fn = "qualification"
    /\ ret = NoCall
    /\ ret' = Returned("evaluate_race",
                       evaluate_race(call.race, call.favorite, call.bankroll,
                                     call.rules, call.stake_management))
    /\ UNCHANGED <<call, seed, rng, inputs, pc, idx, bankroll, bets,
                   daily_results, qlog, result>>

CallCalculateStake ==
    /\ call.fn = "stake"
    /\ ret = NoCall
    /\ ret' = Returned("calculate_stake",
                       calculate_stake(call.bankroll, call.odds, call.multiplier,
                                       call.stake_management))
    /\ UNCHANGED <<call, seed, rng, inputs, pc, idx, bankroll, bets,
                   daily_results, qlog, result>>

CallCalculateStakeMultiplier ==
    /\ call.fn = "multiplier"
    /\ ret = NoCall
    /\ ret' = Returned("calculate_stake_multiplier",
                       calculate_stake_multiplier(call.race, call.rules))
    /\ UNCHANGED <<call, seed, rng, inputs, pc, idx, bankroll, bets,
                   daily_results, qlog, result>>

CallCalculateMaxDrawdown ==
    /\ call.fn = "drawdown"
    /\ ret = NoCall
    /\ ret' = Returned("calculate_max_drawdown",
                       calculate_max_drawdown(call.equity_curve))
    /\ UNCHANGED <<call, seed, rng, inputs, pc, idx, bankroll, bets,
                   daily_results, qlog, result>>

NoInputs ==
    [races |-> <<>>, runners |-> <<>>, strategy_rules |-> DefaultRules,
     stake_management |-> DefaultStakeManagement, initial_bankroll |-> Zero]

InitCalls ==
    /\ call \in QualCalls \cup StakeCalls \cup MultCalls \cup DrawdownCalls
    /\ ret = NoCall
    /\ seed = 1
    /\ rng = 1
    /\ inputs = Idle(NoInputs)
    /\ pc = Idle("idle")
    /\ idx = Idle(0)
    /\ bankroll = Idle(Zero)
    /\ bets = Idle(<<>>)
    /\ daily_results = Idle(<<>>)
    /\ qlog = Idle(<<>>)
    /\ result = Idle([kind |-> "none"])

NextCalls ==
    \/ CallCheckRaceQualification
    \/ CallEvaluateRace
    \/ CallCalculateStake
    \/ CallCalculateStakeMultiplier
    \/ CallCalculateMaxDrawdown

(***************************************************************************)
(* Spec: either one method call, or one run of run_backtest.               *)
(***************************************************************************)
Init == InitCalls \/ InitBacktest

Next == NextCalls \/ \E r \in Runs : RunStep(r)

Spec == Init /\ [][Next]_vars

(***************************************************************************)
(* SpecTwice: run_backtest is called, and after it returned the caller     *)
(* seeds the random source with the same value and calls it again with     *)
(* the same arguments.                                                     *)
(***************************************************************************)
InitTwice ==
    /\ call = NoCall
    /\ ret = NoCall
    /\ seed \in Seeds
    /\ rng = seed
    /\ \E inp \in BacktestInputs : inputs = Idle(inp)
    /\ pc = [r \in Runs |-> IF r = 1 THEN "called" ELSE "waiting"]
    /\ idx = Idle(0)
    /\ bankroll = Idle(Zero)
    /\ bets = Idle(<<>>)
    /\ daily_results = Idle(<<>>)
    /\ qlog = Idle(<<>>)
    /\ result = Idle([kind |-> "none"])

\* random.seed(seed), then the second call
Reseed ==
    /\ pc[1] = "returned"
    /\ pc[2] = "waiting"
    /\ rng' = seed
    /\ pc' = [pc EXCEPT ![2] = "called"]
    /\ UNCHANGED <<call, ret, seed, inputs, idx, bankroll, bets,
                   daily_results, qlog, result>>

NextTwice == Reseed \/ \E r \in Runs : RunStep(r)

SpecTwice == InitTwice /\ [][NextTwice]_vars

(***************************************************************************)
(* SpecConcurrent: two calls of run_backtest in one process, each with its *)
(* own arguments; their loop iterations interleave in any order (one       *)
(* finishing before the other starts included).  Both read the one         *)
(* process-wide random source, rng.                                        *)
(***************************************************************************)
MaxConcurrentRaces == 2

ConcurrentInputs ==
    { inp \in BacktestInputs :
        /\ Len(inp.races) <= MaxConcurrentRaces
        /\ inp.strategy_rules = DefaultRules
        /\ inp.stake_management = DefaultStakeManagement }

InitConcurrent ==
    /\ call = NoCall
    /\ ret = NoCall
    /\ seed \in Seeds
    /\ rng = seed
    /\ inputs \in [Runs -> ConcurrentInputs]
    /\ pc = Idle("called")
    /\ idx = Idle(0)
    /\ bankroll = Idle(Zero)
    /\ bets = Idle(<<>>)
    /\ daily_results = Idle(<<>>)
    /\ qlog = Idle(<<>>)
    /\ result = Idle([kind |-> "none"])

NextConcurrent == \E r \in Runs : RunStep(r)

SpecConcurrent == InitConcurrent /\ [][NextConcurrent]_vars

(***************************************************************************)
(* SpecUnusedFields: run_backtest is called, and after it returned the     *)
(* caller seeds the random source with the same value and calls it again   *)
(* with the same races, runners and initial bankroll and a configuration   *)
(* that differs in fields the service declares: the Kelly fields, the      *)
(* loss limits, the amateur / apprentice exclusions, or all of them.       *)
(***************************************************************************)
FieldGroups == { "kelly", "limits", "exclusions", "all" }

WithOtherFields(inp, group) ==
    LET kelly == group \in {"kelly", "all"}
        limits == group \in {"limits", "all"}
        exclusions == group \in {"exclusions", "all"}
        rules == inp.strategy_rules
        sm == inp.stake_management
    IN  [inp EXCEPT
           !.strategy_rules =
               [rules EXCEPT
                  !.exclude_amateur_races = IF exclusions THEN ~@ ELSE @,
                  !.exclude_apprentice_races = IF exclusions THEN ~@ ELSE @],
           !.stake_management =
               [sm EXCEPT
                  !.use_kelly_criterion = IF kelly THEN ~@ ELSE @,
                  !.kelly_fraction = IF kelly THEN One ELSE @,
                  !.daily_loss_limit_percent =
                      IF limits THEN Rat(1, 2) ELSE @,
                  !.weekly_loss_limit_percent =
                      IF limits THEN One ELSE @]]

InitUnusedFields ==
    /\ call = NoCall
    /\ ret = NoCall
    /\ seed \in Seeds
    /\ rng = seed
    /\ \E inp \in BacktestInputs, group \in FieldGroups :
          /\ inp.strategy_rules = DefaultRules
          /\ inputs = [r \in Runs |-> IF r = 1 THEN inp
                                      ELSE WithOtherFields(inp, group)]
    /\ pc = [r \in Runs |-> IF r = 1 THEN "called" ELSE "waiting"]
    /\ idx = Idle(0)
    /\ bankroll = Idle(Zero)
    /\ bets = Idle(<<>>)
    /\ daily_results = Idle(<<>>)
    /\ qlog = Idle(<<>>)
    /\ result = Idle([kind |-> "none"])

NextUnusedFields == Reseed \/ \E r \in Runs : RunStep(r)

SpecUnusedFields == InitUnusedFields /\ [][NextUnusedFields]_vars

(***************************************************************************)
(* The claims.                                                             *)
(***************************************************************************)
B2I(b) == IF b THEN 1 ELSE 0

Checked == ret.fn = "check_race_qualification"

\* the conditions of the claim, on the arguments of the call
OddsPresent == call.favorite.bsp_odds # None
OddsInBand ==
    /\ RLe(call.rules.min_odds, call.favorite.bsp_odds)
    /\ RLe(call.favorite.bsp_odds, call.rules.max_odds)
RunnersInBand ==
    /\ call.rules.min_runners <= call.race.number_of_runners
    /\ call.race.number_of_runners <= call.rules.max_runners
TypeAllowed == call.race.race_type \in call.rules.allowed_race_types
HandicapExcluded == call.race.is_handicap /\ call.rules.exclude_handicaps

FailureCount(reasons) ==
    Cardinality({k \in DOMAIN reasons : reasons[k] \in FailureReasons})

\* C1: check_race_qualification returns qualifies = true exactly when the
\* favorite has odds inside [min_odds, max_odds] (bounds included), the
\* runner count is inside [min_runners, max_runners] (bounds included), the
\* race type is allowed and the race is not an excluded handicap; and
\* exactly when no failure reason was recorded.
C1_QualifiesIffAllChecksPass ==
    Checked =>
        /\ ret.value.qualifies <=>
              (OddsPresent /\ OddsInBand /\ RunnersInBand /\ TypeAllowed
               /\ ~HandicapExcluded)
        /\ ret.value.qualifies <=> FailureCount(ret.value.reasons) = 0

\* a qualifying call with the odds on the upper bound and the runner count
\* on the lower bound
C1_Witness ==
    /\ Checked
    /\ ret.value.qualifies
    /\ call.favorite.bsp_odds = call.rules.max_odds
    /\ call.race.number_of_runners = call.rules.min_runners

\* C2: when the favorite's bsp_odds is None the method returns
\* qualifies = false, score 0 and exactly one reason, whatever the runner
\* count, race type and handicap status are.
C2_NoOddsIsTerminal ==
    (Checked /\ ~OddsPresent) =>
        /\ ret.value.qualifies = FALSE
        /\ ret.value.score = 0
        /\ Len(ret.value.reasons) = 1
        /\ ret.value.reasons[1] = NoOddsReason

\* no odds, and the runner, type and handicap checks would all have failed
C2_Witness ==
    /\ Checked
    /\ ~OddsPresent
    /\ ~RunnersInBand
    /\ ~TypeAllowed
    /\ HandicapExcluded
    /\ Len(ret.value.reasons) = 1

PlacedLog(r) == SelectSeq(qlog[r], LAMBDA e : e.q.kind = "QualifyingRace")

\* C3: a race reported as qualifying has score exactly 100, and every
\* QualifyingRace evaluate_race builds (called on its own or from
\* run_backtest) has qualification_score 100.
C3_QualifyingScoreIs100 ==
    /\ (Checked /\ ret.value.qualifies) => ret.value.score = 100
    /\ (ret.fn = "evaluate_race" /\ ret.value.kind = "QualifyingRace")
          => ret.value.qualification_score = 100
    /\ \A r \in Runs : \A k \in DOMAIN PlacedLog(r) :
          PlacedLog(r)[k].q.qualification_score = 100

\* evaluate_race built a QualifyingRace for a race one below max_runners
C3_Witness ==
    /\ ret.fn = "evaluate_race"
    /\ ret.value.kind = "QualifyingRace"
    /\ call.race.number_of_runners = call.rules.max_runners
    /\ call.race.going = "soft"

ExpectedPenalty ==
    30 * B2I(RLt(call.favorite.bsp_odds, call.rules.min_odds))
    + 30 * B2I(RGt(call.favorite.bsp_odds, call.rules.max_odds))
    + 25 * B2I(call.race.number_of_runners < call.rules.min_runners)
    + 15 * B2I(call.race.number_of_runners > call.rules.max_runners)
    + 40 * B2I(~TypeAllowed)
    + 35 * B2I(HandicapExcluded)

ExpectedFailures ==
    B2I(RLt(call.favorite.bsp_odds, call.rules.min_odds))
    + B2I(RGt(call.favorite.bsp_odds, call.rules.max_odds))
    + B2I(call.race.number_of_runners < call.rules.min_runners)
    + B2I(call.race.number_of_runners > call.rules.max_runners)
    + B2I(~TypeAllowed)
    + B2I(HandicapExcluded)

\* C4: when the favorite has odds the score is max(0, 100 - the sum of the
\* penalties 30, 30, 25, 15, 40, 35 of the failed checks), it lies in
\* [0, 100], and the number of failure reasons is the number of failed
\* checks.
C4_ScoreIsClampedPenaltySum ==
    (Checked /\ OddsPresent) =>
        /\ ret.value.score =
              (IF ExpectedPenalty >= 100 THEN 0 ELSE 100 - ExpectedPenalty)
        /\ ret.value.score >= 0
        /\ ret.value.score <= 100
        /\ FailureCount(ret.value.reasons) = ExpectedFailures
        /\ ~ret.value.qualifies => Len(ret.value.reasons) = ExpectedFailures

\* all six checks failed at once (penalties 175) and the score is clamped
C4_Witness ==
    /\ Checked
    /\ OddsPresent
    /\ ExpectedPenalty = 175
    /\ ret.value.score = 0
    /\ Len(ret.value.reasons) = 6

\* bankroll * max_liability_percent / 100
LiabilityCap(bank, sm) == RMul(bank, RDiv(sm.max_liability_percent, Hundred))

\* half a cent: the most round(x, 2) moves a value
Epsilon == Rat(1, 200)

WithinCap(liability, bank, sm) ==
    RLe(liability, RAdd(LiabilityCap(bank, sm), Epsilon))

\* C5: for bankroll > 0 and odds > 1 calculate_stake returns a liability of
\* at most bankroll * max_liability_percent / 100 plus the rounding epsilon,
\* for every multiplier; and every Bet of run_backtest has a liability of at
\* most that share of the bankroll held just before the bet.
C5_LiabilityWithinCap ==
    /\ (ret.fn = "calculate_stake" /\ RGt(call.bankroll, Zero)
            /\ RGt(call.odds, One))
          => /\ ret.value.kind = "ok"
             /\ WithinCap(ret.value.liability, call.bankroll,
                          call.stake_management)
    /\ \A r \in Runs :
          /\ Len(PlacedLog(r)) = Len(bets[r])
          /\ \A k \in DOMAIN bets[r] :
                WithinCap(bets[r][k].liability, PlacedLog(r)[k].bankroll,
                          inputs[r].stake_management)

\* a second bet of a run, sized against a bankroll the first bet changed,
\* whose liability is the clamped one
C5_Witness ==
    /\ Len(bets[1]) >= 2
    /\ PlacedLog(1)[2].bankroll # inputs[1].initial_bankroll
    /\ LET e == PlacedLog(1)[2]
           sm == inputs[1].stake_management
           unclamped ==
               RMul(RMul(RMul(e.bankroll, RDiv(sm.base_stake_percent, Hundred)),
                         e.q.adjusted_stake_multiplier),
                    RSub(bets[1][2].odds, One))
       IN  /\ RGt(unclamped, LiabilityCap(e.bankroll, sm))
           /\ bets[1][2].liability = Round2(LiabilityCap(e.bankroll, sm))

\* C6: calculate_stake asked to size a stake against odds <= 1 fails with
\* an InvalidConfiguration or PreconditionViolation kind of error instead
\* of returning a stake and a liability.
C6_OddsAtMostOneFailsLoudly ==
    (ret.fn = "calculate_stake" /\ RLe(call.odds, One))
        => ret.value.kind \in {"InvalidConfiguration", "PreconditionViolation"}

\* C7: calculate_stake_multiplier returns a value strictly greater than 0
\* for every race and every rules configuration the schema accepts.
C7_MultiplierPositive ==
    (ret.fn = "calculate_stake_multiplier" /\ StrategyRulesOK(call.rules))
        => RGt(ret.value, Zero)

\* the favorite run_backtest evaluates for a race, if it has one
FavoritesOf(inp, race) ==
    IF race.id \in DOMAIN race_runners(inp.runners)
    THEN favorites(inp.runners, race) ELSE <<>>

RaceQualifies(inp, race) ==
    /\ Len(FavoritesOf(inp, race)) > 0
    /\ check_race_qualification(race, FavoritesOf(inp, race)[1],
                                inp.strategy_rules).qualifies

NoRaceQualifies(inp) ==
    \A k \in DOMAIN inp.races : ~RaceQualifies(inp, inp.races[k])

\* C8: a run in which no race qualifies returns normally with no bet,
\* total_bets = 0, win_rate = 0, roi = 0, max_drawdown = 0, sharpe_ratio = 0,
\* total_profit_loss = 0 and an empty daily_performance.
C8_NoQualifyingRaceGivesZeroes ==
    \A r \in Runs :
        (pc[r] = "returned" /\ NoRaceQualifies(inputs[r])) =>
            /\ result[r].kind = "ok"
            /\ result[r].bets = <<>>
            /\ result[r].performance.total_bets = 0
            /\ result[r].performance.win_rate = Zero
            /\ result[r].performance.roi = Zero
            /\ result[r].performance.max_drawdown = Zero
            /\ result[r].performance.sharpe_ratio = [zero |-> TRUE]
            /\ result[r].performance.total_profit_loss = Zero
            /\ result[r].performance.daily_performance = <<>>
            /\ bankroll[r] = inputs[r].initial_bankroll

\* a returned run over three races: one without runners or favorite, and
\* two whose favorite was evaluated and did not qualify
C8_Witness ==
    /\ pc[1] = "returned"
    /\ NoRaceQualifies(inputs[1])
    /\ Len(inputs[1].races) = 3
    /\ Len(qlog[1]) = 2

BetDates(bs) == {bs[k].placed_at : k \in DOMAIN bs}

\* C9: for any input order of the races the daily entries are strictly
\* ascending by date, one per distinct date that has a bet; the first
\* starting_bank is initial_bankroll and each ending_bank is the next
\* entry's starting_bank.
C9_DailyEntriesAscendAndChain ==
    \A r \in Runs :
        (pc[r] = "returned" /\ result[r].kind = "ok") =>
            LET dp == result[r].performance.daily_performance
            IN  /\ \A k \in 1..(Len(dp) - 1) : dp[k].date < dp[k + 1].date
                /\ {dp[k].date : k \in DOMAIN dp} = BetDates(result[r].bets)
                /\ Len(dp) = Cardinality(BetDates(result[r].bets))
                /\ Len(dp) > 0 =>
                      dp[1].starting_bank = inputs[r].initial_bankroll
                /\ \A k \in 1..(Len(dp) - 1) :
                      dp[k].ending_bank = dp[k + 1].starting_bank

\* a returned run whose bets were placed out of date order, on two dates,
\* with two bets on one of them
C9_Witness ==
    /\ pc[1] = "returned"
    /\ result[1].kind = "ok"
    /\ Len(result[1].bets) = 3
    /\ result[1].bets[1].placed_at > result[1].bets[2].placed_at
    /\ Len(result[1].performance.daily_performance) = 2

\* C10: two calls of run_backtest with the random source seeded with the
\* same value before each and the same arguments return the same bets and
\* the same performance.
C10_SameSeedSameResult ==
    (pc[1] = "returned" /\ pc[2] = "returned") => result[1] = result[2]

\* both calls returned, with bets that were won and bets that were lost
C10_Witness ==
    /\ pc[1] = "returned"
    /\ pc[2] = "returned"
    /\ result[2].kind = "ok"
    /\ \E j, k \in DOMAIN result[2].bets :
          /\ result[2].bets[j].result = "won"
          /\ result[2].bets[k].result = "lost"

(***************************************************************************)
(* C11.  The reference: run_backtest executed on its own, with the random  *)
(* source in state s when it starts.                                       *)
(***************************************************************************)
RECURSIVE RunAloneLoop(_, _, _, _, _, _)
RunAloneLoop(inp, k, s, bank, bs, dr) ==
    IF k > Len(inp.races)
    THEN Performance(bs, bank, dr, inp.initial_bankroll)
    ELSE LET race == inp.races[k]
         IN  IF race.id \notin DOMAIN race_runners(inp.runners)
             THEN RunAloneLoop(inp, k + 1, s, bank, bs, dr)
             ELSE IF Len(favorites(inp.runners, race)) = 0
             THEN RunAloneLoop(inp, k + 1, s, bank, bs, dr)
             ELSE LET favorite == PickFavorite(favorites(inp.runners, race))
                      q == evaluate_race(race, favorite, bank,
                                         inp.strategy_rules,
                                         inp.stake_management)
                      res == simulate_bet_result(favorite.bsp_odds,
                                                 RandomValue(NextRandom(s)))
                      profit_loss ==
                          calculate_profit_loss(q.suggested_stake,
                                                q.suggested_liability, res)
                  IN  IF q.kind # "QualifyingRace"
                      THEN RunAloneLoop(inp, k + 1, s, bank, bs, dr)
                      ELSE RunAloneLoop(inp, k + 1, NextRandom(s),
                                        RAdd(bank, profit_loss),
                                        Append(bs, Bet(Len(bs) + 1, race,
                                                       favorite, q, res,
                                                       profit_loss)),
                                        TrackDaily(dr, race.race_date, q, res,
                                                   profit_loss))

RunAlone(inp, s) == RunAloneLoop(inp, 1, s, inp.initial_bankroll, <<>>, <<>>)

\* the reference agrees with the state machine when one call runs on its own
RunAloneIsTheSingleRun ==
    pc[1] = "returned" /\ pc[2] = "idle" => result[1] = RunAlone(inputs[1], seed)

\* C11: a call of run_backtest returns the bets and the performance it
\* returns when it runs on its own from the same start of the process,
\* whatever steps of another call are interleaved with it or run before it.
C11_RunsDoNotInterfere ==
    \A r \in Runs :
        pc[r] = "returned" => result[r] = RunAlone(inputs[r], seed)

\* C12: calculate_max_drawdown returns a number for every equity curve, a
\* curve whose running peak is 0 included; it never raises ZeroDivisionError.
C12_DrawdownNeverDividesByZero ==
    ret.fn = "calculate_max_drawdown" => ret.value.kind = "ok"

(***************************************************************************)
(* C13.  The drawdown of the claim, stated position by position.           *)
(***************************************************************************)
RMaxOf(S) == CHOOSE x \in S : \A y \in S : RLe(y, x)

\* max(curve[0..j])
PrefixMax(curve, j) == RMaxOf({ curve[i] : i \in 1..j })

DrawdownAt(curve, j) ==
    RMul(RDiv(RSub(PrefixMax(curve, j), curve[j]), PrefixMax(curve, j)),
         Hundred)

MaxDrawdown(curve) ==
    IF Len(curve) = 0 THEN Zero
    ELSE RMaxOf({ DrawdownAt(curve, j) : j \in DOMAIN curve })

AllPositive(curve) == \A j \in DOMAIN curve : RGt(curve[j], Zero)

NonDecreasing(curve) ==
    \A j \in DOMAIN curve : j > 1 => RLe(curve[j - 1], curve[j])

\* the running bankroll after the k-th bet of run r, as the loop held it
BankrollAfter(r, k) ==
    IF k < Len(PlacedLog(r)) THEN PlacedLog(r)[k + 1].bankroll ELSE bankroll[r]

\* initial_bankroll followed by the bankroll after each bet, in bet order
BankrollHistory(r) ==
    <<inputs[r].initial_bankroll>> \o
        [k \in 1..Len(bets[r]) |-> BankrollAfter(r, k)]

DrawdownCalled ==
    ret.fn = "calculate_max_drawdown" /\ AllPositive(call.equity_curve)

\* C13 as stated: for every equity curve of positive values the function
\* returns the maximum over the positions j of
\* (max(curve[0..j]) - curve[j]) / max(curve[0..j]) * 100 itself; it is 0
\* for a curve shorter than 2 and for a non-decreasing curve, and 20 for
\* [100000, 90000, 95000, 80000]; in run_backtest the curve is
\* initial_bankroll followed by the bankroll after each bet.
C13_DrawdownIsMaxOverPositions ==
    /\ DrawdownCalled =>
          /\ ret.value = [kind |-> "ok",
                          value |-> MaxDrawdown(call.equity_curve)]
          /\ Len(call.equity_curve) < 2 => ret.value.value = Zero
          /\ NonDecreasing(call.equity_curve) => ret.value.value = Zero
          /\ call.equity_curve = ExampleCurve => ret.value.value = Int2Rat(20)
    /\ \A r \in Runs :
          pc[r] = "returned" /\ result[r].kind = "ok" =>
              result[r].performance.max_drawdown =
                  MaxDrawdown(BankrollHistory(r))

\* C13 amended: the function returns that maximum rounded to 2 decimals
\* (round(max_dd, 2)); the rest as stated.
C13_DrawdownIsRoundedMaxOverPositions ==
    /\ DrawdownCalled =>
          /\ ret.value = [kind |-> "ok",
                          value |-> Round2(MaxDrawdown(call.equity_curve))]
          /\ Len(call.equity_curve) < 2 => ret.value.value = Zero
          /\ NonDecreasing(call.equity_curve) => ret.value.value = Zero
          /\ call.equity_curve = ExampleCurve => ret.value.value = Int2Rat(20)
    /\ \A r \in Runs :
          pc[r] = "returned" /\ result[r].kind = "ok" =>
              result[r].performance.max_drawdown =
                  Round2(MaxDrawdown(BankrollHistory(r)))

\* the function returned 20 for the documented curve, whose peak is its
\* first value and whose deepest point is its last
C13_Witness ==
    /\ ret.fn = "calculate_max_drawdown"
    /\ call.equity_curve = ExampleCurve
    /\ ret.value = [kind |-> "ok", value |-> Int2Rat(20)]

(***************************************************************************)
(* C14.  The sizing rule of the claim, computed from the arguments.        *)
(***************************************************************************)
StakeCalled == ret.fn = "calculate_stake"

UnclampedStake ==
    RMul(RMul(call.bankroll,
              RDiv(call.stake_management.base_stake_percent, Hundred)),
         call.multiplier)

UnclampedLiability == RMul(UnclampedStake, RSub(call.odds, One))

MaxLiability ==
    RMul(call.bankroll,
         RDiv(call.stake_management.max_liability_percent, Hundred))

\* the pair of the call before "round(..., 2)"
Sized ==
    size_stake(call.bankroll, call.odds, call.multiplier,
               call.stake_management)

StakeSizedAsClaimed ==
    /\ Sized.kind = "ok"
    /\ IF RGt(UnclampedLiability, MaxLiability)
       THEN /\ Sized.stake = RDiv(MaxLiability, RSub(call.odds, One))
            /\ Sized.liability = MaxLiability
       ELSE /\ Sized.stake = UnclampedStake
            /\ Sized.liability = UnclampedLiability
    /\ Sized.liability = RMul(Sized.stake, RSub(call.odds, One))
    /\ RLe(Sized.stake, UnclampedStake)
    /\ ret.value = [kind |-> "ok", stake |-> Round2(Sized.stake),
                    liability |-> Round2(Sized.liability)]

\* C14: calculate_stake computes stake = bankroll * base_stake_percent/100 *
\* multiplier and liability = stake * (odds - 1); when that liability
\* exceeds max_liability = bankroll * max_liability_percent/100 it returns
\* max_liability / (odds - 1) and max_liability, otherwise the unclamped
\* pair; before rounding liability = stake * (odds - 1) in both branches and
\* the clamped stake is never larger than the unclamped stake.
C14_StakeSizedAndClamped == StakeCalled => StakeSizedAsClaimed

\* the same for the calls the precondition of calculate_stake admits
StakeSizedAboveOddsOne ==
    StakeCalled /\ RGt(call.odds, One) => StakeSizedAsClaimed

(***************************************************************************)
(* C15.  The four factors of the claim and their product in every order.   *)
(***************************************************************************)
TableEntry(table, key) ==
    IF \E k \in DOMAIN table : k = key THEN table[key] ELSE One

Factors(race, rules) ==
    << TableEntry(rules.going_adjustments, race.going),
       TableEntry(rules.track_adjustments, race.track_direction),
       TableEntry(rules.monthly_adjustments, MonthOf(race.race_date)),
       IF race.is_handicap /\ ~rules.exclude_handicaps
       THEN rules.handicap_stake_multiplier ELSE One >>

Orders == { p \in [1..4 -> 1..4] : \A i, j \in 1..4 : i # j => p[i] # p[j] }

ProductInOrder(f, p) == RMul(RMul(RMul(f[p[1]], f[p[2]]), f[p[3]]), f[p[4]])

\* C15: calculate_stake_multiplier is the product of the going, track and
\* month table entries of the race (1 for an unlisted key) and of
\* handicap_stake_multiplier, applied exactly when the race is a handicap
\* and exclude_handicaps is false; every order of the factors gives it.
\* The multiplier run_backtest sizes a bet with is that product too.
C15_MultiplierIsProductOfFactors ==
    /\ ret.fn = "calculate_stake_multiplier" =>
          \A p \in Orders :
              ret.value = ProductInOrder(Factors(call.race, call.rules), p)
    /\ \A r \in Runs : \A k \in DOMAIN PlacedLog(r) :
          \A p \in Orders :
              PlacedLog(r)[k].q.adjusted_stake_multiplier =
                  ProductInOrder(Factors(PlacedLog(r)[k].q.race,
                                         inputs[r].strategy_rules), p)

\* a handicap that is not excluded, with a listed going, a listed track and
\* a listed month: all four factors are read from the configuration
C15_Witness ==
    /\ ret.fn = "calculate_stake_multiplier"
    /\ call.race.is_handicap
    /\ ~call.rules.exclude_handicaps
    /\ call.rules.handicap_stake_multiplier = Int2Rat(2)
    /\ call.race.going \in DOMAIN call.rules.going_adjustments
    /\ call.race.track_direction \in DOMAIN call.rules.track_adjustments
    /\ MonthOf(call.race.race_date) \in DOMAIN call.rules.monthly_adjustments
    /\ ret.value # One

(***************************************************************************)
(* C16.  The bankroll a bet is sized against, from the bets before it.     *)
(***************************************************************************)
ProfitLosses(bs) == [k \in DOMAIN bs |-> bs[k].profit_loss]

\* initial_bankroll plus the profit_loss of the bets recorded before bet k
BankrollBefore(r, k) ==
    RAdd(inputs[r].initial_bankroll,
         RSum(SubSeq(ProfitLosses(bets[r]), 1, k - 1)))

RaceOf(inp, race_id) ==
    inp.races[CHOOSE i \in DOMAIN inp.races : inp.races[i].id = race_id]

BetMultiplier(r, k) ==
    calculate_stake_multiplier(RaceOf(inputs[r], bets[r][k].race_id),
                               inputs[r].strategy_rules)

\* the unclamped stake the race of bet k gets from bankroll bank
UnclampedStakeOf(r, k, bank) ==
    base_stake(bank, BetMultiplier(r, k), inputs[r].stake_management)

SizedAgainstCurrentBankroll(r, k) ==
    LET sized == calculate_stake(BankrollBefore(r, k), bets[r][k].odds,
                                 BetMultiplier(r, k),
                                 inputs[r].stake_management)
    IN  /\ sized.kind = "ok"
        /\ bets[r][k].stake = sized.stake
        /\ bets[r][k].liability = sized.liability
        /\ PlacedLog(r)[k].bankroll = BankrollBefore(r, k)

\* C16 as stated: every bet is sized against initial_bankroll plus the
\* profit_loss of the bets before it, and the race of a won bet, sized again
\* right after it, gets a larger unclamped stake; that of a lost bet a
\* smaller one.
C16_SizedAgainstRunningBankroll ==
    \A r \in Runs : \A k \in DOMAIN bets[r] :
        /\ SizedAgainstCurrentBankroll(r, k)
        /\ bets[r][k].result = "won" =>
              RGt(UnclampedStakeOf(r, k, BankrollBefore(r, k + 1)),
                  UnclampedStakeOf(r, k, BankrollBefore(r, k)))
        /\ bets[r][k].result = "lost" =>
              RLt(UnclampedStakeOf(r, k, BankrollBefore(r, k + 1)),
                  UnclampedStakeOf(r, k, BankrollBefore(r, k)))

\* C16 amended: the same, the comparison holding after a bet won with a
\* stake above 0.00 and after a bet lost with a liability above 0.00 (a
\* bet whose rounded stake and liability are 0.00 leaves the bankroll as
\* it was).
C16_SizedAgainstRunningBankrollNonzero ==
    \A r \in Runs : \A k \in DOMAIN bets[r] :
        /\ SizedAgainstCurrentBankroll(r, k)
        /\ (bets[r][k].result = "won" /\ RGt(bets[r][k].stake, Zero)) =>
              RGt(UnclampedStakeOf(r, k, BankrollBefore(r, k + 1)),
                  UnclampedStakeOf(r, k, BankrollBefore(r, k)))
        /\ (bets[r][k].result = "lost" /\ RGt(bets[r][k].liability, Zero)) =>
              RLt(UnclampedStakeOf(r, k, BankrollBefore(r, k + 1)),
                  UnclampedStakeOf(r, k, BankrollBefore(r, k)))

\* a second bet placed after a won one, with a stake that differs from the
\* stake initial_bankroll alone would give
C16_Witness ==
    /\ Len(bets[1]) >= 2
    /\ bets[1][1].result = "won"
    /\ RGt(bets[1][1].stake, Zero)
    /\ bets[1][2].stake #
          calculate_stake(inputs[1].initial_bankroll, bets[1][2].odds,
                          BetMultiplier(1, 2),
                          inputs[1].stake_management).stake

\* C17: every Bet run_backtest records is SETTLED with result WON or LOST;
\* its profit_loss is +stake when WON and -liability when LOST; the
\* running bankroll after the bet is the bankroll before it plus that
\* profit_loss.
C17_BetsSettledAndBankrollFollows ==
    \A r \in Runs : \A k \in DOMAIN bets[r] :
        /\ bets[r][k].status = "settled"
        /\ bets[r][k].result \in {"won", "lost"}
        /\ bets[r][k].result = "won" =>
              bets[r][k].profit_loss = bets[r][k].stake
        /\ bets[r][k].result = "lost" =>
              bets[r][k].profit_loss = RNeg(bets[r][k].liability)
        /\ BankrollAfter(r, k) =
              RAdd(PlacedLog(r)[k].bankroll, bets[r][k].profit_loss)

\* a run that recorded a won bet and then a lost bet whose liability
\* differs from its stake
C17_Witness ==
    /\ Len(bets[1]) >= 2
    /\ bets[1][1].result = "won"
    /\ bets[1][2].result = "lost"
    /\ bets[1][2].liability # bets[1][2].stake
    /\ RGt(bets[1][1].stake, Zero)

(***************************************************************************)
(* C18.  The races the loop does not bet on.                               *)
(***************************************************************************)
\* the race at hand has no runner, no runner flagged favorite, a favorite
\* without odds, or does not qualify
AtSkippedRace(r) ==
    InLoop(r) /\ ~RaceQualifies(inputs[r], CurrentRace(r))

Skip(r) == SkipNoRunners(r) \/ SkipNoFavorite(r) \/ SkipNotQualifying(r)

\* C18: at such a race the loop goes on to the next race without raising:
\* the step past the race appends no Bet, leaves the bankroll and every
\* daily total as they were and consumes no random draw.
C18_SkippedRaceChangesNothing ==
    /\ [](\A r \in Runs : AtSkippedRace(r) => ENABLED Skip(r))
    /\ [][\A r \in Runs :
            (AtSkippedRace(r) /\ idx'[r] # idx[r]) =>
                /\ idx'[r] = idx[r] + 1
                /\ pc'[r] = "loop"
                /\ bets' = bets
                /\ bankroll' = bankroll
                /\ daily_results' = daily_results
                /\ rng' = rng]_vars

\* a run that placed a bet and then went past the race whose first
\* flagged favorite has no odds
C18_Witness ==
    /\ pc[1] = "loop"
    /\ idx[1] = 3
    /\ Len(bets[1]) = 1
    /\ Len(daily_results[1]) = 1
    /\ bankroll[1] # inputs[1].initial_bankroll
    /\ inputs[1].races[2].id = "r6"

(***************************************************************************)
(* C19.  The first runner of a race flagged favorite, by its position in   *)
(* the runners argument.                                                   *)
(***************************************************************************)
Flagged(inp, race_id, k) ==
    inp.runners[k].race_id = race_id /\ inp.runners[k].is_favorite

IsFirstFlagged(inp, k) ==
    /\ inp.runners[k].is_favorite
    /\ \A j \in 1..(k - 1) : ~Flagged(inp, inp.runners[k].race_id, j)

FirstFlagged(inp, race_id) ==
    inp.runners[CHOOSE k \in DOMAIN inp.runners :
                    Flagged(inp, race_id, k) /\ IsFirstFlagged(inp, k)]

\* the same arguments with the flag of every later flagged runner cleared
LaterFlagsCleared(inp) ==
    [inp EXCEPT !.runners =
        [k \in DOMAIN inp.runners |->
            [inp.runners[k] EXCEPT !.is_favorite = IsFirstFlagged(inp, k)]]]

\* C19: with several runners of a race flagged favorite, the Bet carries
\* the runner_id and the odds of the first flagged runner in the order of
\* the runners argument, every race is evaluated on that runner, and the
\* run returns what it returns with the later flags cleared.
C19_FirstFlaggedFavoriteIsUsed ==
    \A r \in Runs :
        /\ \A k \in DOMAIN bets[r] :
              /\ bets[r][k].runner_id =
                    FirstFlagged(inputs[r], bets[r][k].race_id).id
              /\ bets[r][k].odds =
                    FirstFlagged(inputs[r], bets[r][k].race_id).bsp_odds
        /\ \A k \in DOMAIN qlog[r] :
              LET race == inputs[r].races[qlog[r][k].race]
              IN  qlog[r][k].q =
                      evaluate_race(race, FirstFlagged(inputs[r], race.id),
                                    qlog[r][k].bankroll,
                                    inputs[r].strategy_rules,
                                    inputs[r].stake_management)
        /\ pc[r] = "returned" =>
              result[r] = RunAlone(LaterFlagsCleared(inputs[r]), seed)

\* a returned run that bet on the first of the two flagged runners of r2
\* and went past r6, whose first flagged runner has no odds
C19_Witness ==
    /\ pc[1] = "returned"
    /\ \E k \in DOMAIN bets[1] :
          /\ bets[1][k].race_id = "r2"
          /\ bets[1][k].runner_id = "r2a"
          /\ bets[1][k].odds = Rat(5, 2)
    /\ \E k \in DOMAIN inputs[1].races : inputs[1].races[k].id = "r6"
    /\ \A k \in DOMAIN bets[1] : bets[1][k].race_id # "r6"

(***************************************************************************)
(* C20.  The totals of the returned performance.                           *)
(***************************************************************************)
CountResult(bs, res) == Cardinality({ k \in DOMAIN bs : bs[k].result = res })

\* C20: after run_backtest, total_profit_loss is the final running bankroll
\* minus initial_bankroll and is the sum of profit_loss over the returned
\* bets; total_bets = len(bets) = won_bets + lost_bets, the counts being
\* those of the bets returned with result WON and LOST.
C20_TotalsMatchBets ==
    \A r \in Runs :
        pc[r] = "returned" /\ result[r].kind = "ok" =>
            LET p == result[r].performance
                bs == result[r].bets
            IN  /\ p.total_profit_loss =
                      RSub(bankroll[r], inputs[r].initial_bankroll)
                /\ p.total_profit_loss = RSum(ProfitLosses(bs))
                /\ p.total_bets = Len(bs)
                /\ p.total_bets = p.won_bets + p.lost_bets
                /\ p.won_bets = CountResult(bs, "won")
                /\ p.lost_bets = CountResult(bs, "lost")

\* a returned run of three bets, won and lost ones among them, with a
\* total that is not zero
C20_Witness ==
    /\ pc[1] = "returned"
    /\ result[1].kind = "ok"
    /\ result[1].performance.total_bets = 3
    /\ result[1].performance.won_bets > 0
    /\ result[1].performance.lost_bets > 0
    /\ result[1].performance.total_profit_loss # Zero

(***************************************************************************)
(* C21.  The position in the races argument of the race a bet was laid on. *)
(***************************************************************************)
RacePosition(r, k) ==
    CHOOSE i \in DOMAIN inputs[r].races :
        inputs[r].races[i].id = bets[r][k].race_id

\* C21: run_backtest goes through races once, in input order and without
\* sorting: the bets are in the order of their races in the input, a race
\* element yields at most one bet (so len(bets) <= len(races), and no more
\* bets than races passed so far), and the k-th bet has id bt_k.
C21_SinglePassInInputOrder ==
    \A r \in Runs :
        /\ Len(bets[r]) <= Len(inputs[r].races)
        /\ pc[r] = "loop" => Len(bets[r]) <= idx[r] - 1
        /\ \A k \in DOMAIN bets[r] :
              /\ bets[r][k].id = <<"bt", k>>
              /\ \E i \in DOMAIN inputs[r].races :
                    inputs[r].races[i].id = bets[r][k].race_id
              /\ PlacedLog(r)[k].race = RacePosition(r, k)
        /\ \A j, k \in DOMAIN bets[r] :
              j < k => RacePosition(r, j) < RacePosition(r, k)

\* a returned run over three races given latest first, with a bet on the
\* first and on the last: the bets are in input order, not in date order
C21_Witness ==
    /\ pc[1] = "returned"
    /\ Len(inputs[1].races) = 3
    /\ Len(bets[1]) = 2
    /\ RacePosition(1, 1) = 1
    /\ RacePosition(1, 2) = 3
    /\ bets[1][1].placed_at > bets[1][2].placed_at

(***************************************************************************)
(* C22.  Two calls whose configurations differ in the unused fields.       *)
(***************************************************************************)
\* the percentage of initial_bankroll the daily loss limit of run r allows
DailyLossLimit(r) ==
    RMul(inputs[r].initial_bankroll,
         RDiv(inputs[r].stake_management.daily_loss_limit_percent, Hundred))

\* bet k of run r was placed on a date on which an earlier bet of the run
\* had already lost more than the daily loss limit
PlacedAfterDailyLimit(r, k) ==
    \E j \in 1..(k - 1) :
        /\ bets[r][j].placed_at = bets[r][k].placed_at
        /\ bets[r][j].result = "lost"
        /\ RGt(bets[r][j].liability, DailyLossLimit(r))

PositiveStart(r) ==
    /\ RGt(inputs[r].initial_bankroll, Zero)
    /\ \A k \in DOMAIN bets[r] : RGt(BetMultiplier(r, k), Zero)

\* what bet k took from the bankroll
Reduction(r, k) == RSub(BankrollBefore(r, k), BankrollBefore(r, k + 1))

BankrollStaysPositive(r) ==
    /\ \A k \in DOMAIN bets[r] :
          /\ RGt(BankrollBefore(r, k + 1), Zero)
          /\ bets[r][k].result = "won" => RLe(Reduction(r, k), Zero)
    /\ \A j \in DOMAIN BankrollHistory(r) : RGt(BankrollHistory(r)[j], Zero)
    /\ pc[r] = "returned" => result[r].kind = "ok"

\* C23 as stated: with initial_bankroll > 0 and all multipliers > 0 the
\* running bankroll is strictly positive after every bet; a lost bet takes
\* at most max_liability_percent percent (at most 20 percent under the
\* schema bound) of the bankroll held before it and a won bet takes
\* nothing; the running peak of the drawdown is never 0 in run_backtest.
C23_BankrollStaysPositive ==
    \A r \in Runs :
        PositiveStart(r) =>
            /\ BankrollStaysPositive(r)
            /\ \A k \in DOMAIN bets[r] :
                  bets[r][k].result = "lost" =>
                      /\ RLe(Reduction(r, k),
                             LiabilityCap(BankrollBefore(r, k),
                                          inputs[r].stake_management))
                      /\ StakeManagementOK(inputs[r].stake_management) =>
                            RLe(Reduction(r, k),
                                RMul(BankrollBefore(r, k), Rat(20, 100)))

\* C23 amended: the same, a lost bet taking at most that share of the
\* bankroll plus half a cent, its liability being rounded to 2 decimals.
C23_BankrollStaysPositiveUpToRounding ==
    \A r \in Runs :
        PositiveStart(r) =>
            /\ BankrollStaysPositive(r)
            /\ \A k \in DOMAIN bets[r] :
                  bets[r][k].result = "lost" =>
                      /\ RLe(Reduction(r, k),
                             RAdd(LiabilityCap(BankrollBefore(r, k),
                                               inputs[r].stake_management),
                                  Epsilon))
                      /\ StakeManagementOK(inputs[r].stake_management) =>
                            RLe(Reduction(r, k),
                                RAdd(RMul(BankrollBefore(r, k), Rat(20, 100)),
                                     Epsilon))

\* a run that lost two bets in a row, the second one clamped to the
\* liability cap of the bankroll the first loss left
C23_Witness ==
    /\ Len(bets[1]) >= 2
    /\ bets[1][1].result = "lost"
    /\ bets[1][2].result = "lost"
    /\ RGt(bets[1][1].liability, Zero)
    /\ bets[1][2].liability =
          Round2(LiabilityCap(BankrollBefore(1, 2),
                              inputs[1].stake_management))

(***************************************************************************)
(* C24.  The odds a stake is sized against on the path of the engine.      *)
(***************************************************************************)
InOddsBand(odds, rules) ==
    /\ odds # None
    /\ RLe(rules.min_odds, odds)
    /\ RLe(odds, rules.max_odds)
    /\ StrategyRulesOK(rules) => RGt(odds, One)

\* C24: calculate_stake is reached only for a favorite that passed
\* qualification: every QualifyingRace evaluate_race builds and every Bet
\* run_backtest records has min_odds <= odds <= max_odds, hence odds > 1
\* under the schema's min_odds >= 1.01, and the division by odds - 1
\* never fails on that path.
C24_StakeSizedOnlyForOddsAboveOne ==
    /\ ret.fn = "evaluate_race" =>
          /\ ret.value.kind = "QualifyingRace" =>
                InOddsBand(ret.value.favorite.bsp_odds, call.rules)
          /\ (StrategyRulesOK(call.rules) /\ RGt(call.bankroll, Zero)) =>
                ret.value.kind \in {"None", "QualifyingRace"}
    /\ \A r \in Runs :
          /\ (InLoop(r) /\ HasRunners(r) /\ Len(CurrentFavorites(r)) > 0) =>
                Evaluated(r).kind \in {"None", "QualifyingRace"}
          /\ \A k \in DOMAIN bets[r] :
                InOddsBand(bets[r][k].odds, inputs[r].strategy_rules)
          /\ \A k \in DOMAIN qlog[r] :
                /\ qlog[r][k].q.kind \in {"None", "QualifyingRace"}
                /\ qlog[r][k].q.kind = "QualifyingRace" =>
                      InOddsBand(qlog[r][k].q.favorite.bsp_odds,
                                 inputs[r].strategy_rules)

\* a recorded Bet whose odds are exactly min_odds, after a race whose
\* favorite was not sized
C24_Witness ==
    /\ Len(bets[1]) >= 1
    /\ bets[1][1].odds = inputs[1].strategy_rules.min_odds
    /\ Len(qlog[1]) >= 2
    /\ qlog[1][1].q.kind = "None"

(***************************************************************************)
(* C25.  The daily entries against the bets and the aggregates.            *)
(***************************************************************************)
RECURSIVE ISum(_)
ISum(xs) == IF Len(xs) = 0 THEN 0 ELSE xs[1] + ISum(Tail(xs))

BetsOn(bs, date) == SelectSeq(bs, LAMBDA b : b.placed_at = date)

\* the entry of a date holds the totals of the bets placed on that date
EntryIsItsBets(entry, bs) ==
    LET day == BetsOn(bs, entry.date)
    IN  /\ entry.total_bets = Len(day)
        /\ entry.total_bets > 0
        /\ entry.won_bets = CountResult(day, "won")
        /\ entry.lost_bets = CountResult(day, "lost")
        /\ entry.won_bets + entry.lost_bets = entry.total_bets
        /\ entry.turnover = RSum(Stakes(day))
        /\ entry.liability = RSum(Liabilities(day))
        /\ entry.profit_loss = RSum(ProfitLosses(day))

\* C25: the daily entries run_backtest returns partition the bets by race
\* date, whatever the order of the races in the input: one entry per date
\* with a bet, holding the totals of that date's bets, won_bets +
\* lost_bets = total_bets in each; the daily total_bets, turnover,
\* liability and profit_loss sum to the aggregates of performance; the
\* last entry's ending_bank is initial_bankroll + total_profit_loss.
C25_DailyEntriesPartitionBets ==
    \A r \in Runs :
        pc[r] = "returned" /\ result[r].kind = "ok" =>
            LET p == result[r].performance
                dp == p.daily_performance
                bs == result[r].bets
            IN  /\ \A j, k \in DOMAIN dp : j # k => dp[j].date # dp[k].date
                /\ { dp[k].date : k \in DOMAIN dp } =
                      { bs[k].placed_at : k \in DOMAIN bs }
                /\ \A k \in DOMAIN dp : EntryIsItsBets(dp[k], bs)
                /\ ISum([k \in DOMAIN dp |-> dp[k].total_bets]) = p.total_bets
                /\ RSum([k \in DOMAIN dp |-> dp[k].turnover]) =
                      p.total_turnover
                /\ RSum([k \in DOMAIN dp |-> dp[k].liability]) =
                      p.total_liability
                /\ RSum([k \in DOMAIN dp |-> dp[k].profit_loss]) =
                      p.total_profit_loss
                /\ Len(dp) > 0 =>
                      dp[Len(dp)].ending_bank =
                          RAdd(inputs[r].initial_bankroll, p.total_profit_loss)

\* a returned run of three bets on two dates, the two bets of one date
\* apart in the input with the bet of the other date between them
C25_Witness ==
    /\ pc[1] = "returned"
    /\ result[1].kind = "ok"
    /\ Len(result[1].bets) = 3
    /\ Len(result[1].performance.daily_performance) = 2
    /\ result[1].bets[1].placed_at = result[1].bets[3].placed_at
    /\ result[1].bets[1].placed_at < result[1].bets[2].placed_at
    /\ result[1].performance.total_profit_loss # Zero

====
